---- MODULE Spec2Model ----
(***************************************************************************)
(* Model of the Mednix drug-information RAG service.                       *)
(*   src/rag_pipeline.py : retrying remote calls, decompose_query,         *)
(*                         retrieve_chunks, generate_answer,               *)
(*                         combine_answers, query_pipeline                 *)
(*   src/main.py         : the two POST /query handlers                    *)
(*                                                                         *)
(* A text is a sequence of symbols.  " " and "\n" are the whitespace       *)
(* symbols; any other symbol is a run of non-whitespace characters.  The   *)
(* fixed sentinel strings are one-symbol texts (the pipeline never parses  *)
(* them).  The remote services (embedding, chat completion, FAISS search)  *)
(* are the environment: every attempt of a remote call may fail or         *)
(* succeed, and a search may raise or return any ranked hit list.          *)
(***************************************************************************)
EXTENDS Integers, Sequences, FiniteSets, TLC

(***************************************************************************)
(* Bounds of the model and constants of the program                        *)
(***************************************************************************)
\* longest chat-completion response enumerated for decompose_query
MaxTextLen == 4
\* largest top_k a client sends to the typed /query handler
MaxTopK == 2
\* stop_after_attempt(5)
MaxAttempts == 5
\* query_pipeline(user_query, top_k=3, max_subqueries=5)
DefaultTopK == 3
DefaultMaxSubqueries == 5

Alphabet == {"a", "b", " ", "\n"}

Texts == UNION {[1..n -> Alphabet] : n \in 0..MaxTextLen}

\* request bodies: empty, whitespace-only, and a question with a leading blank
Queries == {<<>>, <<" ">>, <<" ", "q">>}

\* max_subqueries values a client sends to the typed /query handler
MaxSubqueriesInputs == {1, DefaultMaxSubqueries}

\* chat-completion contents returned for a decomposition prompt in a pipeline run
DecomposeContents ==
    { <<>>,
      <<" ", "a", "\n">>,
      <<"a", "\n", "b">>,
      <<"b", " ", "\n", "\n", " ", "a", " ">> }

\* chat-completion contents returned for an answer or a combination prompt
AnswerContents == { <<" ", "x", "\n">> }

NoInfo == << "No relevant information found." >>
ErrAnswer == << "Error generating answer." >>
ErrFinal == << "Error generating final answer." >>

\* _metadata = pd.read_csv(METADATA_FILE): the row-aligned metadata table
metadata ==
    << [drug_name |-> "d0", drugbank_id |-> "DB0", chunk_index |-> 0, chunk_text |-> <<"t0">>],
       [drug_name |-> "d1", drugbank_id |-> "DB1", chunk_index |-> 0, chunk_text |-> <<"t1">>] >>

\* _index = faiss.read_index(INDEX_FILE): the index holds one vector more than
\* the table has rows (index/metadata drift), so row Len(metadata) is out of range
IndexRows == Len(metadata) + 1

(***************************************************************************)
(* Text functions                                                          *)
(***************************************************************************)
SetMin(S) == CHOOSE x \in S : \A y \in S : x <= y
SetMax(S) == CHOOSE x \in S : \A y \in S : x >= y

IsSpace(c) == c \in {" ", "\n"}

\* str.strip()
Strip(s) ==
    LET keep == {i \in 1..Len(s) : ~IsSpace(s[i])}
    IN  IF keep = {} THEN <<>> ELSE SubSeq(s, SetMin(keep), SetMax(keep))

\* str.splitlines()
RECURSIVE SplitLines(_)
SplitLines(s) ==
    IF s = <<>> THEN <<>>
    ELSE LET nl == {i \in 1..Len(s) : s[i] = "\n"}
         IN  IF nl = {} THEN <<s>>
             ELSE <<SubSeq(s, 1, SetMin(nl) - 1)>>
                      \o SplitLines(SubSeq(s, SetMin(nl) + 1, Len(s)))

\* sep.join(parts)
RECURSIVE Join(_, _)
Join(parts, sep) ==
    IF parts = <<>> THEN <<>>
    ELSE IF Len(parts) = 1 THEN parts[1]
    ELSE parts[1] \o sep \o Join(Tail(parts), sep)

(***************************************************************************)
(* State                                                                   *)
(***************************************************************************)
VARIABLES
    handler,        \* main.py: the handler serving the request ("none" before)
    reqQuery,       \* main.py: the query field of the request body
    invoked,        \* main.py: query_pipeline has been called for the request
    status,         \* main.py: HTTP status of the response, 0 while none
    pc,             \* position of the flow of control
    user_query,     \* query_pipeline: user_query
    top_k,          \* query_pipeline: top_k
    max_subqueries, \* query_pipeline: max_subqueries
    sub_queries,    \* query_pipeline: sub_queries
    i,              \* query_pipeline: position of sq in sub_queries (1-based)
    hits,           \* retrieve_chunks: zip(indices[0], distances[0])
    searchOutcome,  \* retrieve_chunks: "none", "ok", "raised" for _index.search
    chunks,         \* query_pipeline: chunks
    answer,         \* query_pipeline: answer
    answers,        \* query_pipeline: answers (the trace)
    final_answer,   \* query_pipeline: final_answer
    callFn,         \* retried call in progress or last made: "none", "embed", "llm"
    prompt,         \* argument of that call
    attempt,        \* tenacity: attempt_number of that call
    fails,          \* attempts of that call that raised
    outcome,        \* "none", "pending", "returned", "raised"
    callErr,        \* attempt whose exception was raised to the caller, 0 if none
    callResult      \* value returned to the caller

reqVars == <<handler, reqQuery, invoked, status>>
pipeVars == <<user_query, top_k, max_subqueries, sub_queries, i, hits,
              searchOutcome, chunks, answer, answers, final_answer>>
callVars == <<callFn, prompt, attempt, fails, outcome, callErr, callResult>>
vars == <<reqVars, pc, pipeVars, callVars>>

NoPrompt == [kind |-> "none", query |-> <<>>, body |-> <<>>]

(***************************************************************************)
(* retry_decorator: tenacity.retry(reraise=True, stop=stop_after_attempt(5),*)
(* retry=retry_if_exception_type(Exception)).  The exponential wait only   *)
(* delays the next attempt.                                                *)
(***************************************************************************)
StopAfterAttemptOffByOne(n) == n >= MaxAttempts + 1

\* stop_after_attempt(5): stop once attempt_number >= 5
StopAfterAttempt(n) == n >= MaxAttempts

\* reraise=True: the exception of the last attempt is raised to the caller;
\* an exception is identified by the number of the attempt that raised it
Reraise(n) == n

StartCall(fn, p) ==
    /\ callFn' = fn
    /\ prompt' = p
    /\ attempt' = 0
    /\ fails' = 0
    /\ outcome' = "pending"
    /\ callErr' = 0
    /\ callResult' = <<>>

ClearCall ==
    /\ callFn' = "none"
    /\ prompt' = NoPrompt
    /\ attempt' = 0
    /\ fails' = 0
    /\ outcome' = "none"
    /\ callErr' = 0
    /\ callResult' = <<>>

\* one attempt returns: the retried function returns its value
AttemptReturns(value) ==
    /\ attempt' = attempt + 1
    /\ fails' = fails
    /\ outcome' = "returned"
    /\ callErr' = 0
    /\ callResult' = value
    /\ UNCHANGED <<callFn, prompt>>

\* one attempt raises: retry, or stop and re-raise
AttemptRaises ==
    /\ attempt' = attempt + 1
    /\ fails' = fails + 1
    /\ IF StopAfterAttempt(attempt + 1)
          THEN outcome' = "raised" /\ callErr' = Reraise(attempt + 1)
          ELSE outcome' = "pending" /\ callErr' = 0
    /\ UNCHANGED <<callFn, prompt, callResult>>

\* _create_embedding: an attempt returns the vector
CreateEmbeddingReturns ==
    /\ pc = "embed" /\ callFn = "embed" /\ outcome = "pending"
    /\ AttemptReturns(<<"emb">>)
    /\ UNCHANGED <<reqVars, pc, pipeVars>>

\* _create_embedding: an attempt raises
CreateEmbeddingRaises ==
    /\ pc = "embed" /\ callFn = "embed" /\ outcome = "pending"
    /\ AttemptRaises
    /\ UNCHANGED <<reqVars, pc, pipeVars>>

LlmContents == IF pc = "decompose" THEN DecomposeContents ELSE AnswerContents

\* _llm_chat_completion: an attempt returns content.strip()
LlmChatCompletionReturns ==
    /\ pc \in {"decompose", "answer", "combine"}
    /\ callFn = "llm" /\ outcome = "pending"
    /\ \E content \in LlmContents : AttemptReturns(Strip(content))
    /\ UNCHANGED <<reqVars, pc, pipeVars>>

\* _llm_chat_completion: an attempt raises
LlmChatCompletionRaises ==
    /\ pc \in {"decompose", "answer", "combine"}
    /\ callFn = "llm" /\ outcome = "pending"
    /\ AttemptRaises
    /\ UNCHANGED <<reqVars, pc, pipeVars>>

(***************************************************************************)
(* decompose_query                                                         *)
(***************************************************************************)
DecomposePrompt(q, m) ==
    [kind |-> "decompose", query |-> q, body |-> <<ToString(m)>>]

NonBlankLinesUnstripped(text) ==
    SelectSeq(SplitLines(text), LAMBDA l : Strip(l) # <<>>)

\* [q.strip() for q in text.splitlines() if q.strip()]
NonBlankLines(text) ==
    LET kept == SelectSeq(SplitLines(text), LAMBDA l : Strip(l) # <<>>)
    IN  [n \in 1..Len(kept) |-> Strip(kept[n])]

\* the value decompose_query returns, given how _llm_chat_completion ended
DecomposeResult(how, text, q) ==
    IF how = "returned"
       THEN IF NonBlankLines(text) # <<>> THEN NonBlankLines(text) ELSE <<q>>
       ELSE <<q>>

\* decompose_query returns to query_pipeline, which enters its loop
DecomposeQueryReturn ==
    /\ pc = "decompose" /\ outcome \in {"returned", "raised"}
    /\ sub_queries' = DecomposeResult(outcome, callResult, user_query)
    /\ i' = 1
    /\ pc' = "loop"
    /\ UNCHANGED <<reqVars, user_query, top_k, max_subqueries, hits,
                   searchOutcome, chunks, answer, answers, final_answer, callVars>>

(***************************************************************************)
(* retrieve_chunks                                                         *)
(***************************************************************************)
EmbedPrompt(sq) == [kind |-> "embed", query |-> sq, body |-> <<>>]

\* _index.search(emb, top_k) when it returns: k hits, nearest first; the first
\* hits are distinct vectors of the index, the rest is FAISS's -1 padding.  The
\* distance of a hit is modelled by its rank.
SearchResults(k) ==
    LET Idx == [1..k -> (-1 .. IndexRows - 1)]
        Ok(f) == /\ \A m, n \in 1..k : (m < n /\ f[m] = -1) => f[n] = -1
                 /\ \A m, n \in 1..k : (m # n /\ f[m] # -1) => f[m] # f[n]
    IN  { [n \in 1..k |-> [idx |-> f[n], dist |-> n]] : f \in {g \in Idx : Ok(g)} }

\* not (idx < 0 or idx >= len(_metadata))
InRange(idx) == ~(idx < 0 \/ idx >= Len(metadata))

\* the dict appended for one surviving hit
Chunk(idx, dist) ==
    LET row == metadata[idx + 1]
    IN  [drug_name |-> row.drug_name,
         drugbank_id |-> row.drugbank_id,
         chunk_index |-> row.chunk_index,
         text |-> row.chunk_text,
         distance |-> dist]

RECURSIVE ProjectHitsRankedByPosition(_, _)
ProjectHitsRankedByPosition(hs, kept) ==
    IF hs = <<>> THEN <<>>
    ELSE IF ~InRange(Head(hs).idx) THEN ProjectHitsRankedByPosition(Tail(hs), kept)
    ELSE <<Chunk(Head(hs).idx, kept + 1)>>
             \o ProjectHitsRankedByPosition(Tail(hs), kept + 1)

ProjectHitsByPosition(hs) == ProjectHitsRankedByPosition(hs, 0)

\* for idx, dist in zip(indices[0], distances[0]): continue / results.append
RECURSIVE ProjectHitsFrom(_)
ProjectHitsFrom(hs) ==
    IF hs = <<>> THEN <<>>
    ELSE IF ~InRange(Head(hs).idx) THEN ProjectHitsFrom(Tail(hs))
    ELSE <<Chunk(Head(hs).idx, Head(hs).dist)>> \o ProjectHitsFrom(Tail(hs))

\* the results list retrieve_chunks builds from the search hits
ProjectHits(hs) == ProjectHitsFrom(hs)

\* retrieve_chunks: _create_embedding raised; except Exception: return []
RetrieveChunksEmbeddingFailed ==
    /\ pc = "embed" /\ outcome = "raised"
    /\ chunks' = <<>>
    /\ pc' = "generate"
    /\ ClearCall
    /\ UNCHANGED <<reqVars, user_query, top_k, max_subqueries, sub_queries, i,
                   hits, searchOutcome, answer, answers, final_answer>>

\* retrieve_chunks: the embedding is there, _index.search returns, the hits are
\* projected and the results returned
RetrieveChunksSearched ==
    /\ pc = "embed" /\ outcome = "returned"
    /\ \E hs \in SearchResults(top_k) :
          /\ hits' = hs
          /\ chunks' = ProjectHits(hs)
    /\ searchOutcome' = "ok"
    /\ pc' = "generate"
    /\ ClearCall
    /\ UNCHANGED <<reqVars, user_query, top_k, max_subqueries, sub_queries, i,
                   answer, answers, final_answer>>

\* retrieve_chunks: the embedding is there, _index.search raises (it is outside
\* the try block), and so do retrieve_chunks and query_pipeline
RetrieveChunksSearchRaises ==
    /\ pc = "embed" /\ outcome = "returned"
    /\ searchOutcome' = "raised"
    /\ pc' = "raised"
    /\ ClearCall
    /\ UNCHANGED <<reqVars, user_query, top_k, max_subqueries, sub_queries, i,
                   hits, chunks, answer, answers, final_answer>>

(***************************************************************************)
(* generate_answer                                                         *)
(***************************************************************************)
AnswerPrompt(sq, cs) ==
    [kind |-> "answer", query |-> sq,
     body |-> Join([n \in 1..Len(cs) |-> <<"Chunk:", " ">> \o cs[n].text],
                   <<"\n", "\n">>)]

AlwaysGenerate(cs) == FALSE

\* if not chunks
NoChunks(cs) == cs = <<>>

\* generate_answer is entered: the sentinel, or the call of the Generation Client
GenerateAnswer ==
    /\ pc = "generate"
    /\ IF NoChunks(chunks)
          THEN /\ answer' = NoInfo
               /\ pc' = "append"
               /\ UNCHANGED callVars
          ELSE /\ StartCall("llm", AnswerPrompt(sub_queries[i], chunks))
               /\ pc' = "answer"
               /\ UNCHANGED answer
    /\ hits' = <<>>
    /\ UNCHANGED <<reqVars, user_query, top_k, max_subqueries, sub_queries, i,
                   searchOutcome, chunks, answers, final_answer>>

\* generate_answer returns the completion, or the sentinel when the call raised
GenerateAnswerReturn ==
    /\ pc = "answer" /\ outcome \in {"returned", "raised"}
    /\ answer' = IF outcome = "returned" THEN callResult ELSE ErrAnswer
    /\ pc' = "append"
    /\ UNCHANGED <<reqVars, user_query, top_k, max_subqueries, sub_queries, i,
                   hits, searchOutcome, chunks, answers, final_answer, callVars>>

(***************************************************************************)
(* combine_answers                                                         *)
(***************************************************************************)
CombinedTextFromZero(as) ==
    Join([n \in 1..Len(as) |-> <<ToString(n - 1), ".", " ">> \o as[n].answer],
         <<"\n">>)

\* "\n".join([f"{i+1}. {a['answer']}" for i, a in enumerate(sub_query_answers)])
CombinedText(as) ==
    Join([n \in 1..Len(as) |-> <<ToString(n), ".", " ">> \o as[n].answer],
         <<"\n">>)

CombinePrompt(q, as) ==
    [kind |-> "combine", query |-> q, body |-> CombinedText(as)]

\* combine_answers returns the completion, or the sentinel when the call raised
CombineAnswersReturn ==
    /\ pc = "combine" /\ outcome \in {"returned", "raised"}
    /\ final_answer' = IF outcome = "returned" THEN callResult ELSE ErrFinal
    /\ pc' = "returned"
    /\ UNCHANGED <<reqVars, user_query, top_k, max_subqueries, sub_queries, i,
                   hits, searchOutcome, chunks, answer, answers, callVars>>

(***************************************************************************)
(* query_pipeline                                                          *)
(***************************************************************************)
\* query_pipeline is called: decompose_query builds its prompt and calls the
\* Generation Client
QueryPipeline(q, k, m) ==
    /\ user_query' = q
    /\ top_k' = k
    /\ max_subqueries' = m
    /\ invoked' = TRUE
    /\ pc' = "decompose"
    /\ StartCall("llm", DecomposePrompt(q, m))
    /\ UNCHANGED <<sub_queries, i, hits, searchOutcome, chunks, answer, answers,
                   final_answer>>

\* for sq in sub_queries: the next sub-question goes to retrieve_chunks
LoopNext ==
    /\ pc = "loop" /\ i <= Len(sub_queries)
    /\ pc' = "embed"
    /\ StartCall("embed", EmbedPrompt(sub_queries[i]))
    /\ UNCHANGED <<reqVars, pipeVars>>

\* answers.append({"sub_query": sq, "answer": answer, "chunks": chunks})
AppendAnswer ==
    /\ pc = "append"
    /\ answers' = Append(answers, [sub_query |-> sub_queries[i],
                                    answer |-> answer,
                                    chunks |-> chunks])
    /\ i' = i + 1
    /\ chunks' = <<>>
    /\ answer' = <<>>
    /\ searchOutcome' = "none"
    /\ pc' = "loop"
    /\ ClearCall
    /\ UNCHANGED <<reqVars, user_query, top_k, max_subqueries, sub_queries,
                   hits, final_answer>>

\* the loop is over: combine_answers builds its prompt and calls the
\* Generation Client
LoopExit ==
    /\ pc = "loop" /\ i > Len(sub_queries)
    /\ pc' = "combine"
    /\ StartCall("llm", CombinePrompt(user_query, answers))
    /\ UNCHANGED <<reqVars, pipeVars>>

(***************************************************************************)
(* main.py: the two handlers registered for POST /query                    *)
(***************************************************************************)
\* not request.query or not request.query.strip()
Blank(q) == q = <<>> \/ Strip(q) = <<>>

\* query(request: QueryRequest), up to its response or its call of query_pipeline
Query ==
    /\ pc = "idle"
    /\ \E q \in Queries, k \in 1..MaxTopK, m \in MaxSubqueriesInputs :
          /\ handler' = "query"
          /\ reqQuery' = q
          /\ IF Blank(q)
                THEN /\ status' = 400
                     /\ pc' = "responded"
                     /\ UNCHANGED <<invoked, pipeVars, callVars>>
                ELSE /\ QueryPipeline(q, k, m)
                     /\ UNCHANGED status

\* query_endpoint(request: Request), up to its response or its call of
\* query_pipeline(query)
QueryEndpoint ==
    /\ pc = "idle"
    /\ \E q \in Queries :
          /\ handler' = "query_endpoint"
          /\ reqQuery' = q
          /\ IF q = <<>>
                THEN /\ status' = 400
                     /\ pc' = "responded"
                     /\ UNCHANGED <<invoked, pipeVars, callVars>>
                ELSE /\ QueryPipeline(q, DefaultTopK, DefaultMaxSubqueries)
                     /\ UNCHANGED status

\* query_pipeline returned (final_answer, answers): the handler responds
Respond ==
    /\ pc = "returned"
    /\ status' = 200
    /\ pc' = "responded"
    /\ UNCHANGED <<handler, reqQuery, invoked, pipeVars, callVars>>

\* query_pipeline raised: the handler does not catch, the framework answers 500
RespondError ==
    /\ pc = "raised"
    /\ status' = 500
    /\ pc' = "responded"
    /\ UNCHANGED <<handler, reqQuery, invoked, pipeVars, callVars>>

(***************************************************************************)
(* Specifications                                                          *)
(***************************************************************************)
Init ==
    /\ handler = "none" /\ reqQuery = <<>> /\ invoked = FALSE /\ status = 0
    /\ pc = "idle"
    /\ user_query = <<>> /\ top_k = DefaultTopK
    /\ max_subqueries = DefaultMaxSubqueries
    /\ sub_queries = <<>> /\ i = 1 /\ hits = <<>> /\ searchOutcome = "none"
    /\ chunks = <<>> /\ answer = <<>> /\ answers = <<>> /\ final_answer = <<>>
    /\ callFn = "none" /\ prompt = NoPrompt /\ attempt = 0 /\ fails = 0
    /\ outcome = "none" /\ callErr = 0 /\ callResult = <<>>

Next ==
    \/ Query
    \/ QueryEndpoint
    \/ CreateEmbeddingReturns
    \/ CreateEmbeddingRaises
    \/ LlmChatCompletionReturns
    \/ LlmChatCompletionRaises
    \/ DecomposeQueryReturn
    \/ LoopNext
    \/ RetrieveChunksEmbeddingFailed
    \/ RetrieveChunksSearched
    \/ RetrieveChunksSearchRaises
    \/ GenerateAnswer
    \/ GenerateAnswerReturn
    \/ AppendAnswer
    \/ LoopExit
    \/ CombineAnswersReturn
    \/ Respond
    \/ RespondError

Spec == Init /\ [][Next]_vars

\* decompose_query on its own: the pipeline has been called with any of the
\* queries and the Generation Client's call for the decomposition prompt has
\* ended, returning any text of up to MaxTextLen symbols (stripped) or raising
InitDecompose ==
    /\ handler = "query_endpoint" /\ reqQuery \in Queries \ {<<>>}
    /\ invoked = TRUE /\ status = 0
    /\ pc = "decompose"
    /\ user_query = reqQuery /\ top_k = DefaultTopK
    /\ max_subqueries = DefaultMaxSubqueries
    /\ sub_queries = <<>> /\ i = 1 /\ hits = <<>> /\ searchOutcome = "none"
    /\ chunks = <<>> /\ answer = <<>> /\ answers = <<>> /\ final_answer = <<>>
    /\ callFn = "llm"
    /\ prompt = DecomposePrompt(user_query, max_subqueries)
    /\ \/ /\ outcome = "returned" /\ attempt = 1 /\ fails = 0 /\ callErr = 0
          /\ callResult \in {Strip(t) : t \in Texts}
       \/ /\ outcome = "raised" /\ attempt = MaxAttempts /\ fails = MaxAttempts
          /\ callErr = MaxAttempts /\ callResult = <<>>

NextDecompose == DecomposeQueryReturn

SpecDecompose == InitDecompose /\ [][NextDecompose]_vars

(***************************************************************************)
(* Properties                                                              *)
(***************************************************************************)
PipelineOver == invoked /\ pc \in {"returned", "raised", "responded"}

\* t occurs in s as a contiguous run of symbols
Contains(s, t) ==
    \E p \in 1 .. (Len(s) - Len(t) + 1) : SubSeq(s, p, p + Len(t) - 1) = t

\* the non-whitespace symbols of a text, in order
RECURSIVE NonSpace(_)
NonSpace(s) ==
    IF s = <<>> THEN <<>>
    ELSE (IF IsSpace(Head(s)) THEN <<>> ELSE <<Head(s)>>) \o NonSpace(Tail(s))

RECURSIVE Flatten(_)
Flatten(ss) == IF ss = <<>> THEN <<>> ELSE Head(ss) \o Flatten(Tail(ss))

\* positions of a text holding the first non-whitespace symbol of their line
LineStarts(s) ==
    { p \in 1..Len(s) :
        /\ ~IsSpace(s[p])
        /\ \A q \in 1 .. (p - 1) :
              IsSpace(s[q]) \/ \E r \in (q + 1) .. (p - 1) : s[r] = "\n" }

\* C1: a call of query_pipeline never raises to its caller: whenever a pipeline
\* run is over it has returned (final_answer, trace), and the handler has not
\* answered with a server error.
C1_PipelineNeverRaises ==
    PipelineOver => (pc # "raised" /\ status # 500)

\* C2: decompose_query returns a non-empty sequence: exactly <<user_query>>,
\* the unmodified input, when the generation call raised or its text has no
\* non-blank line; otherwise the non-blank lines of the text, each stripped,
\* in the order of the text.
C2_DecomposeResult ==
    (pc = "loop" /\ callFn = "llm") =>
        /\ sub_queries # <<>>
        /\ IF outcome = "raised" \/ LineStarts(callResult) = {}
              THEN sub_queries = <<user_query>>
              ELSE /\ Len(sub_queries) = Cardinality(LineStarts(callResult))
                   /\ NonSpace(Flatten(sub_queries)) = NonSpace(callResult)
                   /\ \A n \in 1..Len(sub_queries) :
                         LET sq == sub_queries[n]
                         IN  /\ sq # <<>>
                             /\ \A p \in 1..Len(sq) : sq[p] # "\n"
                             /\ ~IsSpace(sq[1]) /\ ~IsSpace(sq[Len(sq)])
                             /\ Contains(callResult, sq)

\* C2 witness: a response of two different lines, one of them padded with a
\* blank, has been decomposed into its two stripped lines.
C2_Witness ==
    /\ pc = "loop" /\ outcome = "returned"
    /\ callResult = <<"a", " ", "\n", "b">>
    /\ sub_queries = << <<"a">>, <<"b">> >>

\* C3: generate_answer called with no chunks returns the sentinel "No relevant
\* information found." and makes no attempt on the Generation Client; every
\* trace entry without chunks carries that sentinel.
C3_NoChunksNoGeneration ==
    /\ (pc = "append" /\ chunks = <<>>) =>
           (answer = NoInfo /\ callFn = "none" /\ attempt = 0)
    /\ \A n \in 1..Len(answers) :
           answers[n].chunks = <<>> => answers[n].answer = NoInfo

\* C3 witness: generate_answer has returned for a sub-question whose retrieval
\* was empty because the embedding call failed (no search was made).
C3_Witness ==
    /\ pc = "append" /\ chunks = <<>> /\ searchOutcome = "none"
    /\ answer = NoInfo /\ Len(answers) = 1

\* C4: retrieve_chunks returns exactly the hits whose row index is inside the
\* metadata table, in the order of the search and each with its own distance;
\* so at most top_k entries, each one an existing row, nearest first.
C4_InRangeHitsOnly ==
    (pc = "generate" /\ searchOutcome = "ok") =>
        LET kept == SelectSeq(hits, LAMBDA h : h.idx >= 0 /\ h.idx < Len(metadata))
        IN  /\ Len(hits) = top_k
            /\ Len(chunks) = Len(kept)
            /\ Len(chunks) <= top_k
            /\ \A n \in 1..Len(chunks) :
                  /\ chunks[n].text = metadata[kept[n].idx + 1].chunk_text
                  /\ chunks[n].drug_name = metadata[kept[n].idx + 1].drug_name
                  /\ chunks[n].distance = kept[n].dist
            /\ \A m, n \in 1..Len(chunks) :
                  m < n => chunks[m].distance <= chunks[n].distance

\* C4 witness: the nearest hit is row Len(metadata), one past the table, the
\* other two are rows of the table, and the result holds those two in order.
C4_Witness ==
    /\ pc = "generate" /\ searchOutcome = "ok"
    /\ Len(hits) = 3 /\ hits[1].idx = Len(metadata)
    /\ Len(chunks) = 2
    /\ chunks[1].text = <<"t1">> /\ chunks[2].text = <<"t0">>

\* C5: a retried call makes at most 5 attempts; it returns at the first attempt
\* that succeeds, after attempt-1 failures, and makes no attempt after it; it
\* raises only after 5 failed attempts, and raises the error of the 5th.
C5_RetryAtMostFive ==
    /\ attempt \in 0..MaxAttempts
    /\ outcome = "pending" => (attempt < MaxAttempts /\ fails = attempt)
    /\ outcome = "returned" => (attempt >= 1 /\ fails = attempt - 1 /\ callErr = 0)
    /\ outcome = "raised" =>
          (attempt = MaxAttempts /\ fails = MaxAttempts /\ callErr = MaxAttempts)

\* C5 witness: the embedding call has returned on its 5th attempt after 4
\* failures.
C5_Witness ==
    callFn = "embed" /\ outcome = "returned" /\ attempt = 5 /\ fails = 4

C7_OneEntryPerSubQuestion ==
    PipelineOver =>
        /\ Len(answers) = Len(sub_queries)
        /\ \A n \in 1..Len(answers) : answers[n].sub_query = sub_queries[n]

\* C8: decompose_query returns at most max_subqueries sub-questions, so the
\* trace never has more than max_subqueries entries.
C8_AtMostMaxSubqueries ==
    /\ Len(sub_queries) <= max_subqueries
    /\ Len(answers) <= max_subqueries

\* C9: a failure of the nearest-neighbor search is absorbed by retrieve_chunks:
\* it returns the empty sequence and the pipeline goes on to generate_answer.
C9_SearchFailureAbsorbed ==
    searchOutcome = "raised" => (pc = "generate" /\ chunks = <<>>)

\* C10 (as amended): the list in combine_answers' prompt has one line per trace
\* entry, line n being "n. " followed by the answer of entry n; when the
\* generation call raises, combine_answers returns "Error generating final
\* answer.".
C10_CombinePromptAnswersOnly ==
    /\ pc = "combine" =>
          LET lines == SplitLines(prompt.body)
          IN  /\ prompt.kind = "combine"
              /\ Len(lines) = Len(answers)
              /\ \A n \in 1..Len(lines) :
                    lines[n] = <<ToString(n), ".", " ">> \o answers[n].answer
    /\ (pc = "returned" /\ outcome = "raised") => final_answer = ErrFinal

\* C10 witness: the prompt is built for a trace of two entries with different
\* answers.
C10_Witness ==
    /\ pc = "combine" /\ Len(answers) = 2
    /\ answers[1].answer = NoInfo /\ answers[2].answer = <<"x">>

\* C10 (as stated): every item of the list carries both the sub-question and
\* the answer of its trace entry.
C10_ItemsCarrySubQuestion ==
    pc = "combine" =>
        LET lines == SplitLines(prompt.body)
        IN  /\ Len(lines) = Len(answers)
            /\ \A n \in 1..Len(lines) :
                  /\ Contains(lines[n], answers[n].answer)
                  /\ Contains(lines[n], answers[n].sub_query)

====
